---------------------------- MODULE Spec2Model ----------------------------
(***************************************************************************)
(* MiniLang front end (compilador_minilang.py): the scoped symbol table,   *)
(* the semantic validator check_semantics, the grammar with its precedence *)
(* table, the shift-reduce parse the grammar is run through, and the       *)
(* driver main() that validates whatever the parse returns.                *)
(***************************************************************************)
EXTENDS Integers, Sequences, FiniteSets, TLC

VARIABLES
    scopes,         \* SymbolTable.scopes: a stack (sequence) of name -> info maps
    st_call,        \* the last SymbolTable call: operation, arguments, scopes before, outcome
    tokens,         \* the token sequence the lexer hands to the parser
    pos,            \* number of tokens the parser has pulled from the lexer
    lookahead,      \* the parser's current lookahead symbol (None when not yet pulled)
    lookaheadstack, \* the parser's pushback stack of lookahead symbols
    statestack,     \* the parser's stack of LR states
    symstack,       \* the parser's stack of grammar symbols with their values
    errorcount,     \* the parser's error-recovery counter
    diagnostics,    \* what p_error printed, in order (the offending token values)
    ast,            \* what parser.parse returned
    output,         \* what main() printed after the parse
    pc              \* where the run is

vars == << scopes, st_call, tokens, pos, lookahead, lookaheadstack, statestack,
           symstack, errorcount, diagnostics, ast, output, pc >>

symvars == << scopes, st_call >>

parsevars == << tokens, pos, lookahead, lookaheadstack, statestack, symstack,
                errorcount, diagnostics, ast, output, pc >>

\* Python's None, as a record so that it compares with every AST node.
None == [node |-> "None"]

(***************************************************************************)
(* Bounds of the model.                                                    *)
(***************************************************************************)
MaxScopes == 2

\* The number of top-level declarations of a program handed to check_semantics.
MaxDecls == 4

(***************************************************************************)
(* 3) Semantic analysis: class SymbolTable.                                *)
(***************************************************************************)
EmptyScope == << >>

\* SymbolTable.__init__
SymbolTable == << EmptyScope >>

\* SymbolTable.push_scope
push_scope(s) == Append(s, EmptyScope)

\* SymbolTable.pop_scope: list.pop() of an empty list raises IndexError.
pop_scope(s) ==
    IF Len(s) = 0
    THEN [raised |-> "IndexError", name |-> "", scopes |-> s]
    ELSE [raised |-> "none", name |-> "", scopes |-> SubSeq(s, 1, Len(s) - 1)]

\* A declare that also refuses a name bound in an outer scope.
declare_any_scope(s, name, info) ==
    IF Len(s) = 0
    THEN [raised |-> "IndexError", name |-> "", scopes |-> s]
    ELSE IF \E i \in 1..Len(s) : name \in DOMAIN s[i]
         THEN [raised |-> "duplicate", name |-> name, scopes |-> s]
         ELSE [raised |-> "none", name |-> "",
               scopes |-> [s EXCEPT ![Len(s)] = (name :> info) @@ @]]

\* SymbolTable.declare: scopes[-1] of an empty list raises IndexError.
declare(s, name, info) ==
    IF Len(s) = 0
    THEN [raised |-> "IndexError", name |-> "", scopes |-> s]
    ELSE IF name \in DOMAIN s[Len(s)]
         THEN [raised |-> "duplicate", name |-> name, scopes |-> s]
         ELSE [raised |-> "none", name |-> "",
               scopes |-> [s EXCEPT ![Len(s)] = (name :> info) @@ @]]

\* A lookup that scans the scopes outermost first.
RECURSIVE get_outermost_first(_, _)
get_outermost_first(s, name) ==
    IF Len(s) = 0 THEN None
    ELSE IF name \in DOMAIN s[1] THEN s[1][name]
         ELSE get_outermost_first(Tail(s), name)

\* SymbolTable.get: for scope in reversed(self.scopes)
RECURSIVE get(_, _)
get(s, name) ==
    IF Len(s) = 0 THEN None
    ELSE IF name \in DOMAIN s[Len(s)] THEN s[Len(s)][name]
         ELSE get(SubSeq(s, 1, Len(s) - 1), name)

(***************************************************************************)
(* AST nodes (the constructors' fields).                                   *)
(***************************************************************************)
ProgramNode(consts, vars_, subs) ==
    [node |-> "Program", consts |-> consts, vars_ |-> vars_, subs |-> subs]

ConstDeclNode(ctype, name, value) ==
    [node |-> "ConstDecl", ctype |-> ctype, name |-> name, value |-> value]

VarDeclNode(vtype, name, value) ==
    [node |-> "VarDecl", vtype |-> vtype, name |-> name, value |-> value]

SubroutineNode(rtype, name, params, body) ==
    [node |-> "Subroutine", rtype |-> rtype, name |-> name, params |-> params, body |-> body]

ParamNode(ptype, pname) == [node |-> "Param", ptype |-> ptype, pname |-> pname]

AssignNode(varname, expr) == [node |-> "Assign", varname |-> varname, expr |-> expr]

IfNode(condition, then_block, else_block) ==
    [node |-> "If", condition |-> condition, then_block |-> then_block,
     else_block |-> else_block]

WhileNode(condition, block) == [node |-> "While", condition |-> condition, block |-> block]

ReturnNode(expr) == [node |-> "Return", expr |-> expr]

PrintNode(expr) == [node |-> "Print", expr |-> expr]

CallNode(funcname, args) == [node |-> "Call", funcname |-> funcname, args |-> args]

BinOpNode(op, left, right) == [node |-> "BinOp", op |-> op, left |-> left, right |-> right]

UnOpNode(op, expr) == [node |-> "UnOp", op |-> op, expr |-> expr]

IntLiteralNode(value) == [node |-> "IntLiteral", value |-> value]

StringLiteralNode(value) == [node |-> "StringLiteral", value |-> value]

BoolLiteralNode(value) == [node |-> "BoolLiteral", value |-> value]

VarRefNode(name) == [node |-> "VarRef", name |-> name]

(***************************************************************************)
(* check_semantics.                                                        *)
(***************************************************************************)
ConstInfo(c) == [type |-> c.ctype, isConst |-> TRUE]

VarInfo(v) == [type |-> v.vtype, isConst |-> FALSE]

SubInfo(s) ==
    [type |-> s.rtype, isSubroutine |-> TRUE,
     params |-> [i \in 1..Len(s.params) |-> << s.params[i].ptype, s.params[i].pname >>]]

\* One of the three declaration loops: declare decls[i], decls[i+1], ... until
\* one raises.  r is the outcome so far.
RECURSIVE DeclareLoop(_, _, _, _)
DeclareLoop(r, decls, i, kind) ==
    IF r.raised # "none" \/ i > Len(decls) THEN r
    ELSE LET d == decls[i]
             info == IF kind = "const" THEN ConstInfo(d)
                     ELSE IF kind = "var" THEN VarInfo(d) ELSE SubInfo(d)
         IN DeclareLoop(declare(r.scopes, d.name, info), decls, i + 1, kind)

\* A main scan that accepts any return type for main.
RECURSIVE MainScanAnyType(_, _, _)
MainScanAnyType(subs, i, main_found) ==
    IF i > Len(subs)
    THEN (IF main_found THEN "none" ELSE "no_main")
    ELSE MainScanAnyType(subs, i + 1, main_found \/ subs[i].name = "main")

\* Step 4 of check_semantics: the scan for 'main'.
RECURSIVE MainScan(_, _, _)
MainScan(subs, i, main_found) ==
    IF i > Len(subs)
    THEN (IF main_found THEN "none" ELSE "no_main")
    ELSE IF subs[i].name = "main"
         THEN (IF subs[i].rtype # "VOID" THEN "main_not_void"
               ELSE MainScan(subs, i + 1, TRUE))
         ELSE MainScan(subs, i + 1, main_found)

\* A validator that declares the subroutines before the constants and variables.
check_semantics_subs_first(ast_root) ==
    LET r0 == [raised |-> "none", name |-> "", scopes |-> SymbolTable]
        r1 == DeclareLoop(r0, ast_root.subs, 1, "sub")
        r2 == DeclareLoop(r1, ast_root.consts, 1, "const")
        r3 == DeclareLoop(r2, ast_root.vars_, 1, "var")
    IN IF r3.raised # "none" THEN [raised |-> r3.raised, name |-> r3.name]
       ELSE [raised |-> MainScan(ast_root.subs, 1, FALSE), name |-> ""]

\* check_semantics: the exception it raises, or "none".
check_semantics(ast_root) ==
    LET r0 == [raised |-> "none", name |-> "", scopes |-> SymbolTable]
        r1 == DeclareLoop(r0, ast_root.consts, 1, "const")
        r2 == DeclareLoop(r1, ast_root.vars_, 1, "var")
        r3 == DeclareLoop(r2, ast_root.subs, 1, "sub")
    IN IF r3.raised # "none" THEN [raised |-> r3.raised, name |-> r3.name]
       ELSE [raised |-> MainScan(ast_root.subs, 1, FALSE), name |-> ""]

(***************************************************************************)
(* 2) Syntax analysis: the tokens, the precedence table and the grammar.   *)
(***************************************************************************)
\* reserved: the upper-case keywords, each its own token type.
reserved ==
    {"CONST", "SUBROUTINE", "DO", "END", "IF", "THEN", "ELSE", "WHILE", "RETURN",
     "PRINT", "TRUE", "FALSE", "VOID", "INT", "BOOL", "STRING", "AND", "OR", "NOT"}

\* tokens: the token types of the lexer.
Terminals ==
    {"ID", "PLUS", "MINUS", "TIMES", "DIVIDE", "EQ", "NEQ", "GT", "LT", "ASSIGN",
     "LPAREN", "RPAREN", "SEMICOLON", "COMMA", "INT_LITERAL", "STRING_LITERAL"}
    \cup reserved

\* The t_ rules of the one-spelling tokens: token type -> the text it matches.
Lexeme ==
    [t \in {"PLUS", "MINUS", "TIMES", "DIVIDE", "EQ", "NEQ", "GT", "LT", "ASSIGN",
            "LPAREN", "RPAREN", "SEMICOLON", "COMMA"} |->
        CASE t = "PLUS" -> "+"   [] t = "MINUS" -> "-"  [] t = "TIMES" -> "*"
          [] t = "DIVIDE" -> "/" [] t = "EQ" -> "=="    [] t = "NEQ" -> "!="
          [] t = "GT" -> ">"     [] t = "LT" -> "<"     [] t = "ASSIGN" -> "="
          [] t = "LPAREN" -> "(" [] t = "RPAREN" -> ")" [] t = "SEMICOLON" -> ";"
          [] OTHER -> ","]

\* A token as the lexer returns it: its type and its value.
Tok(type, value) == [type |-> type, value |-> value]

\* t_ID: a reserved word takes its own type, its value stays the spelling.
t_ID(text) == IF text \in reserved THEN Tok(text, text) ELSE Tok("ID", text)

\* A punctuation or operator token.
Punct(type) == Tok(type, Lexeme[type])

\* t_INT_LITERAL: the value is the integer, held here as its decimal numeral.
t_INT_LITERAL(n) == Tok("INT_LITERAL", n)

\* A precedence table that also lists the comparison and logical operators,
\* left-associative, below the arithmetic ones.
precedence_with_comparisons ==
    << << "left", {"EQ", "NEQ", "GT", "LT", "AND", "OR"} >>,
       << "left", {"PLUS", "MINUS"} >>,
       << "left", {"TIMES", "DIVIDE"} >>,
       << "right", {"NOT"} >> >>

\* A precedence table with the two arithmetic levels exchanged.
precedence_swapped ==
    << << "left", {"TIMES", "DIVIDE"} >>,
       << "left", {"PLUS", "MINUS"} >>,
       << "right", {"NOT"} >> >>

\* precedence: lowest level first.
precedence ==
    << << "left", {"PLUS", "MINUS"} >>,
       << "left", {"TIMES", "DIVIDE"} >>,
       << "right", {"NOT"} >> >>

\* The (associativity, level) of a terminal; a terminal the table does not list
\* has ('right', 0).
TokenPrec(t) ==
    IF \E i \in 1..Len(precedence) : t \in precedence[i][2]
    THEN LET i == CHOOSE i \in 1..Len(precedence) : t \in precedence[i][2]
         IN [assoc |-> precedence[i][1], level |-> i]
    ELSE [assoc |-> "right", level |-> 0]

\* A grammar rule: left-hand side, right-hand side, the p_ function that builds its value.
Rule(name, prod, func) == [name |-> name, prod |-> prod, func |-> func]

\* The grammar, in the order of the p_ functions; rule 1 is the augmented start rule.
Productions ==
    << Rule("S'", << "program" >>, "accept"),
       Rule("program", << "const_section", "var_section", "subroutine_section" >>, "p_program"),
       Rule("const_section", << "const_section", "const_declaration" >>, "p_const_section"),
       Rule("const_section", << "empty" >>, "p_const_section"),
       Rule("const_declaration",
            << "CONST", "type", "ID", "ASSIGN", "expression", "SEMICOLON" >>,
            "p_const_declaration"),
       Rule("var_section", << "var_section", "var_declaration" >>, "p_var_section"),
       Rule("var_section", << "empty" >>, "p_var_section"),
       Rule("var_declaration", << "type", "ID", "ASSIGN", "expression", "SEMICOLON" >>,
            "p_var_declaration"),
       Rule("var_declaration", << "type", "ID", "SEMICOLON" >>, "p_var_declaration"),
       Rule("subroutine_section", << "subroutine_section", "subroutine_decl" >>,
            "p_subroutine_section"),
       Rule("subroutine_section", << "empty" >>, "p_subroutine_section"),
       Rule("subroutine_decl",
            << "SUBROUTINE", "subroutine_type", "ID", "LPAREN", "param_list", "RPAREN",
               "DO", "statement_list", "END" >>,
            "p_subroutine_decl"),
       Rule("subroutine_type", << "VOID" >>, "p_subroutine_type"),
       Rule("subroutine_type", << "INT" >>, "p_subroutine_type"),
       Rule("subroutine_type", << "BOOL" >>, "p_subroutine_type"),
       Rule("subroutine_type", << "STRING" >>, "p_subroutine_type"),
       Rule("param_list", << "param_list", "COMMA", "param_decl" >>, "p_param_list"),
       Rule("param_list", << "param_decl" >>, "p_param_list"),
       Rule("param_list", << "empty" >>, "p_param_list"),
       Rule("param_decl", << "type", "ID" >>, "p_param_decl"),
       Rule("statement_list", << "statement_list", "statement" >>, "p_statement_list"),
       Rule("statement_list", << "empty" >>, "p_statement_list"),
       Rule("statement", << "assignment_stmt" >>, "p_statement"),
       Rule("statement", << "if_stmt" >>, "p_statement"),
       Rule("statement", << "while_stmt" >>, "p_statement"),
       Rule("statement", << "return_stmt" >>, "p_statement"),
       Rule("statement", << "print_stmt" >>, "p_statement"),
       Rule("statement", << "call_stmt", "SEMICOLON" >>, "p_statement"),
       Rule("assignment_stmt", << "ID", "ASSIGN", "expression", "SEMICOLON" >>,
            "p_assignment_stmt"),
       Rule("if_stmt",
            << "IF", "LPAREN", "expression", "RPAREN", "THEN", "statement_list",
               "else_part", "END" >>,
            "p_if_stmt"),
       Rule("else_part", << "ELSE", "statement_list" >>, "p_else_part"),
       Rule("else_part", << "empty" >>, "p_else_part"),
       Rule("while_stmt",
            << "WHILE", "LPAREN", "expression", "RPAREN", "DO", "statement_list", "END" >>,
            "p_while_stmt"),
       Rule("return_stmt", << "RETURN", "expression", "SEMICOLON" >>, "p_return_stmt"),
       Rule("print_stmt", << "PRINT", "LPAREN", "expression", "RPAREN", "SEMICOLON" >>,
            "p_print_stmt"),
       Rule("call_stmt", << "ID", "LPAREN", "arg_list", "RPAREN" >>, "p_call_stmt"),
       Rule("arg_list", << "arg_list", "COMMA", "expression" >>, "p_arg_list"),
       Rule("arg_list", << "expression" >>, "p_arg_list"),
       Rule("arg_list", << "empty" >>, "p_arg_list"),
       Rule("expression", << "ID", "LPAREN", "arg_list", "RPAREN" >>, "p_expression_call"),
       Rule("expression", << "expression", "PLUS", "expression" >>, "p_expression_binop"),
       Rule("expression", << "expression", "MINUS", "expression" >>, "p_expression_binop"),
       Rule("expression", << "expression", "TIMES", "expression" >>, "p_expression_binop"),
       Rule("expression", << "expression", "DIVIDE", "expression" >>, "p_expression_binop"),
       Rule("expression", << "expression", "EQ", "expression" >>, "p_expression_binop"),
       Rule("expression", << "expression", "NEQ", "expression" >>, "p_expression_binop"),
       Rule("expression", << "expression", "GT", "expression" >>, "p_expression_binop"),
       Rule("expression", << "expression", "LT", "expression" >>, "p_expression_binop"),
       Rule("expression", << "expression", "AND", "expression" >>, "p_expression_binop"),
       Rule("expression", << "expression", "OR", "expression" >>, "p_expression_binop"),
       Rule("expression", << "NOT", "expression" >>, "p_expression_unop"),
       Rule("expression", << "LPAREN", "expression", "RPAREN" >>, "p_expression_paren"),
       Rule("expression", << "INT_LITERAL" >>, "p_expression_int"),
       Rule("expression", << "STRING_LITERAL" >>, "p_expression_string"),
       Rule("expression", << "TRUE" >>, "p_expression_bool"),
       Rule("expression", << "FALSE" >>, "p_expression_bool"),
       Rule("expression", << "ID" >>, "p_expression_varref"),
       Rule("type", << "VOID" >>, "p_type"),
       Rule("type", << "INT" >>, "p_type"),
       Rule("type", << "BOOL" >>, "p_type"),
       Rule("type", << "STRING" >>, "p_type"),
       Rule("empty", << >>, "p_empty") >>

ProdIdx == 1..Len(Productions)

Nonterminals == {Productions[k].name : k \in ProdIdx}

(***************************************************************************)
(* The p_ functions.  p is the sequence p[1], p[2], ... of the values of   *)
(* the rule's right-hand side; Python's len(p) is Len(p) + 1; the operator *)
(* yields p[0].                                                            *)
(***************************************************************************)
p_program(p) == ProgramNode(p[1], p[2], p[3])

\* The three sections and statement_list share one shape.
p_const_section(p) == IF Len(p) + 1 = 3 THEN p[1] \o << p[2] >> ELSE << >>

p_const_declaration(p) == ConstDeclNode(p[2], p[3], p[5])

p_var_section(p) == IF Len(p) + 1 = 3 THEN p[1] \o << p[2] >> ELSE << >>

p_var_declaration(p) ==
    IF Len(p) + 1 = 6 THEN VarDeclNode(p[1], p[2], p[4]) ELSE VarDeclNode(p[1], p[2], None)

p_subroutine_section(p) == IF Len(p) + 1 = 3 THEN p[1] \o << p[2] >> ELSE << >>

p_subroutine_decl(p) == SubroutineNode(p[2], p[3], p[5], p[8])

p_subroutine_type(p) == p[1]

p_param_list(p) ==
    IF Len(p) + 1 = 4 THEN p[1] \o << p[3] >>
    ELSE IF Len(p) + 1 = 2 /\ p[1] # None THEN << p[1] >>
    ELSE << >>

p_param_decl(p) == ParamNode(p[1], p[2])

p_statement_list(p) == IF Len(p) + 1 = 3 THEN p[1] \o << p[2] >> ELSE << >>

p_statement(p) == p[1]

p_assignment_stmt(p) == AssignNode(p[1], p[3])

p_if_stmt(p) == IfNode(p[3], p[6], p[7])

p_else_part(p) == IF Len(p) + 1 = 3 THEN p[2] ELSE << >>

p_while_stmt(p) == WhileNode(p[3], p[6])

p_return_stmt(p) == ReturnNode(p[2])

p_print_stmt(p) == PrintNode(p[3])

\* A call statement that drops its arguments.
p_call_stmt_no_args(p) == CallNode(p[1], << >>)

p_call_stmt(p) == CallNode(p[1], p[3])

p_arg_list(p) ==
    IF Len(p) + 1 = 4 THEN p[1] \o << p[3] >>
    ELSE IF Len(p) + 1 = 2 /\ p[1] # None THEN << p[1] >>
    ELSE << >>

p_expression_call(p) == CallNode(p[1], p[3])

p_expression_binop(p) == BinOpNode(p[2], p[1], p[3])

p_expression_unop(p) == UnOpNode(p[1], p[2])

p_expression_paren(p) == p[2]

p_expression_int(p) == IntLiteralNode(p[1])

p_expression_string(p) == StringLiteralNode(p[1])

p_expression_bool(p) == BoolLiteralNode(p[1] = "TRUE")

p_expression_varref(p) == VarRefNode(p[1])

p_type(p) == p[1]

p_empty(p) == None

\* p.callable(pslice): the value rule k's function gives p[0].
Callable(k, p) ==
    LET f == Productions[k].func
    IN CASE f = "p_program" -> p_program(p)
         [] f = "p_const_section" -> p_const_section(p)
         [] f = "p_const_declaration" -> p_const_declaration(p)
         [] f = "p_var_section" -> p_var_section(p)
         [] f = "p_var_declaration" -> p_var_declaration(p)
         [] f = "p_subroutine_section" -> p_subroutine_section(p)
         [] f = "p_subroutine_decl" -> p_subroutine_decl(p)
         [] f = "p_subroutine_type" -> p_subroutine_type(p)
         [] f = "p_param_list" -> p_param_list(p)
         [] f = "p_param_decl" -> p_param_decl(p)
         [] f = "p_statement_list" -> p_statement_list(p)
         [] f = "p_statement" -> p_statement(p)
         [] f = "p_assignment_stmt" -> p_assignment_stmt(p)
         [] f = "p_if_stmt" -> p_if_stmt(p)
         [] f = "p_else_part" -> p_else_part(p)
         [] f = "p_while_stmt" -> p_while_stmt(p)
         [] f = "p_return_stmt" -> p_return_stmt(p)
         [] f = "p_print_stmt" -> p_print_stmt(p)
         [] f = "p_call_stmt" -> p_call_stmt(p)
         [] f = "p_arg_list" -> p_arg_list(p)
         [] f = "p_expression_call" -> p_expression_call(p)
         [] f = "p_expression_binop" -> p_expression_binop(p)
         [] f = "p_expression_unop" -> p_expression_unop(p)
         [] f = "p_expression_paren" -> p_expression_paren(p)
         [] f = "p_expression_int" -> p_expression_int(p)
         [] f = "p_expression_string" -> p_expression_string(p)
         [] f = "p_expression_bool" -> p_expression_bool(p)
         [] f = "p_expression_varref" -> p_expression_varref(p)
         [] f = "p_type" -> p_type(p)
         [] OTHER -> p_empty(p)

(***************************************************************************)
(* parser = yacc.yacc(): the LR automaton of the grammar.  A state is its  *)
(* kernel, a set of items << rule, symbols before the dot >>.              *)
(***************************************************************************)
RuleLen(k) == Len(Productions[k].prod)

HasNext(it) == it[2] < RuleLen(it[1])

NextSym(it) == Productions[it[1]].prod[it[2] + 1]

\* The nonterminals reachable from the nonterminals S as leftmost symbols.
RECURSIVE LeftmostNT(_)
LeftmostNT(S) ==
    LET S2 == S \cup {Productions[k].prod[1] :
                        k \in {j \in ProdIdx : /\ Productions[j].name \in S
                                               /\ RuleLen(j) > 0
                                               /\ Productions[j].prod[1] \in Nonterminals}}
    IN IF S2 = S THEN S ELSE LeftmostNT(S2)

\* The rules a dot before nonterminal N brings into a state.
ClosureRules == [N \in Nonterminals |-> {k \in ProdIdx : Productions[k].name \in LeftmostNT({N})}]

\* The items of a state: its kernel and the closure items.
Closure(K) ==
    K \cup {<< k, 0 >> :
              k \in UNION {ClosureRules[NextSym(it)] :
                             it \in {i \in K : HasNext(i) /\ NextSym(i) \in Nonterminals}}}

\* The state reached from state K over symbol X (empty: there is none).
Goto(K, X) ==
    {<< it[1], it[2] + 1 >> : it \in {i \in Closure(K) : HasNext(i) /\ NextSym(i) = X}}

StartState == {<< 1, 0 >>}

\* The state stack after reducing by rule k.
AfterReduce(ss, k) ==
    LET base == SubSeq(ss, 1, Len(ss) - RuleLen(k))
    IN Append(base, Goto(base[Len(base)], Productions[k].name))

\* The lookahead of a reduction: terminal a can follow in the left context ss,
\* that is, after the reductions it calls for the parse shifts a (or accepts).
\* (The generated table may also reduce on a terminal that cannot follow, and
\* then reports the error a few reductions later, on the same token.)
RECURSIVE Viable(_, _)
Viable(ss, a) ==
    LET C == Closure(ss[Len(ss)])
    IN \/ \E it \in C : HasNext(it) /\ NextSym(it) = a
       \/ a = "$end" /\ << 1, 1 >> \in C
       \/ \E it \in C : /\ ~HasNext(it)
                        /\ it[1] # 1
                        /\ Viable(AfterReduce(ss, it[1]), a)

\* The precedence of a rule: that of its rightmost terminal.
RulePrec(k) ==
    LET prod == Productions[k].prod
        ts == {i \in 1..Len(prod) : prod[i] \in Terminals}
    IN IF ts = {} THEN [assoc |-> "right", level |-> 0]
       ELSE TokenPrec(prod[CHOOSE i \in ts : \A j \in ts : j <= i])

\* Terminal a can be shifted in the state on top of ss.
CanShift(ss, a) == \E it \in Closure(ss[Len(ss)]) : HasNext(it) /\ NextSym(it) = a

\* The rules the state on top of ss can reduce by on lookahead a.
ReduceRules(ss, a) ==
    {k \in {it[1] : it \in {i \in Closure(ss[Len(ss)]) : ~HasNext(i) /\ i[1] # 1}} :
       Viable(AfterReduce(ss, k), a)}

\* Of two reductions the rule defined first wins.
FirstRule(reds) == CHOOSE r \in reds : \A q \in reds : r <= q

\* A shift/reduce conflict between shifting a token of precedence sp and
\* reducing by rule k of precedence rp: reduce when the rule's level is higher
\* than the token's, or equal and the rule is left-associative; otherwise shift
\* (no entry at all for equal levels and nonassoc).
ResolveConflict(sp, rp, k) ==
    IF sp.level < rp.level \/ (sp.level = rp.level /\ rp.assoc = "left")
    THEN [kind |-> "reduce", rule |-> k]
    ELSE IF sp.level = rp.level /\ rp.assoc = "nonassoc"
         THEN [kind |-> "none", rule |-> 0]
         ELSE [kind |-> "shift", rule |-> 0]

\* The table entry, given what the state can do on terminal a.
TableEntry(a, accept, canShift, reds) ==
    IF accept THEN [kind |-> "accept", rule |-> 0]
    ELSE IF reds = {}
         THEN (IF canShift THEN [kind |-> "shift", rule |-> 0]
               ELSE [kind |-> "none", rule |-> 0])
    ELSE IF ~canShift THEN [kind |-> "reduce", rule |-> FirstRule(reds)]
    ELSE ResolveConflict(TokenPrec(a), RulePrec(FirstRule(reds)), FirstRule(reds))

\* The table entry for the state on top of ss and terminal a: shift, reduce by a
\* rule, accept, or none (a syntax error).
LRAction(ss, a) ==
    TableEntry(a, a = "$end" /\ << 1, 1 >> \in Closure(ss[Len(ss)]), CanShift(ss, a),
               ReduceRules(ss, a))

(***************************************************************************)
(* parser.parse(code, lexer=lexer): the parse loop, one action per turn.   *)
(***************************************************************************)
\* error_count: the shifts after a syntax error during which no other is reported.
error_count == 3

EndSym == [type |-> "$end", value |-> None]

Top(seq) == seq[Len(seq)]

Action == LRAction(statestack, lookahead.type)

\* p_error(p): prints the offending token (or EOF) and returns; it neither
\* raises nor resynchronises, so the parser goes on with its own recovery.
p_error ==
    diagnostics' = Append(diagnostics,
                          [token |-> IF lookahead.type = "$end" THEN None ELSE lookahead,
                           at |-> pos])

\* What every syntax-error turn does first: the first error, or one after
\* error_count clean shifts, is handed to p_error; the counter is set again.
SyntaxError ==
    /\ IF errorcount = 0 THEN p_error ELSE UNCHANGED diagnostics
    /\ errorcount' = error_count

\* No lookahead: pull the next token (pushed-back ones first), $end after the last.
GetToken ==
    /\ pc = "parse"
    /\ lookahead = None
    /\ IF lookaheadstack # << >>
       THEN /\ lookahead' = Top(lookaheadstack)
            /\ lookaheadstack' = SubSeq(lookaheadstack, 1, Len(lookaheadstack) - 1)
            /\ pos' = pos
       ELSE /\ lookahead' = IF pos < Len(tokens) THEN tokens[pos + 1] ELSE EndSym
            /\ pos' = IF pos < Len(tokens) THEN pos + 1 ELSE pos
            /\ UNCHANGED lookaheadstack
    /\ UNCHANGED << tokens, statestack, symstack, errorcount, diagnostics, ast, output, pc >>
    /\ UNCHANGED symvars

\* t > 0: shift the lookahead.
Shift ==
    /\ pc = "parse"
    /\ lookahead # None
    /\ Action.kind = "shift"
    /\ statestack' = Append(statestack, Goto(Top(statestack), lookahead.type))
    /\ symstack' = Append(symstack, lookahead)
    /\ lookahead' = None
    /\ errorcount' = IF errorcount > 0 THEN errorcount - 1 ELSE errorcount
    /\ UNCHANGED << tokens, pos, lookaheadstack, diagnostics, ast, output, pc >>
    /\ UNCHANGED symvars

\* targ = symstack[-plen-1:]: the values p[1], p[2], ... of the rule's right-hand side.
RhsValues(sym, k) == [i \in 1..RuleLen(k) |-> sym[Len(sym) - RuleLen(k) + i].value]

\* t < 0: reduce by a rule, calling its p_ function.
Reduce ==
    /\ pc = "parse"
    /\ lookahead # None
    /\ Action.kind = "reduce"
    /\ \E k \in {Action.rule} : \E p \in {RhsValues(symstack, k)} :
          /\ symstack' = Append(SubSeq(symstack, 1, Len(symstack) - RuleLen(k)),
                                [type |-> Productions[k].name, value |-> Callable(k, p)])
          /\ statestack' = AfterReduce(statestack, k)
    /\ UNCHANGED << tokens, pos, lookahead, lookaheadstack, errorcount, diagnostics,
                    ast, output, pc >>
    /\ UNCHANGED symvars

\* t == 0: accept; parse returns the value on top of the symbol stack.
Accept ==
    /\ pc = "parse"
    /\ lookahead # None
    /\ lookahead.type = "$end"
    /\ Action.kind = "accept"
    /\ ast' = Top(symstack).value
    /\ pc' = "returned"
    /\ UNCHANGED << tokens, pos, lookahead, lookaheadstack, statestack, symstack,
                    errorcount, diagnostics, output >>
    /\ UNCHANGED symvars

\* t is None, case 1: the whole stack has been rolled back; the token is
\* discarded, the pushback stack emptied, and the parse goes on from state 0.
ErrorDiscard ==
    /\ pc = "parse"
    /\ lookahead # None
    /\ Len(statestack) <= 1
    /\ lookahead.type # "$end"
    /\ Action.kind = "none"
    /\ SyntaxError
    /\ lookahead' = None
    /\ lookaheadstack' = << >>
    /\ UNCHANGED << tokens, pos, statestack, symstack, ast, output, pc >>
    /\ UNCHANGED symvars

\* t is None at the end of the input: parse returns None.
ErrorBail ==
    /\ pc = "parse"
    /\ lookahead # None
    /\ lookahead.type = "$end"
    /\ Action.kind = "none"
    /\ SyntaxError
    /\ ast' = None
    /\ pc' = "returned"
    /\ UNCHANGED << tokens, pos, lookahead, lookaheadstack, statestack, symstack, output >>
    /\ UNCHANGED symvars

\* t is None on a token, with states on the stack: the token is pushed back
\* and an error symbol becomes the lookahead.
ErrorToken ==
    /\ pc = "parse"
    /\ lookahead # None
    /\ Len(statestack) > 1
    /\ lookahead.type \notin {"$end", "error"}
    /\ Action.kind = "none"
    /\ SyntaxError
    /\ IF Top(symstack).type = "error"
       THEN /\ lookahead' = None
            /\ UNCHANGED lookaheadstack
       ELSE /\ lookaheadstack' = Append(lookaheadstack, lookahead)
            /\ lookahead' = [type |-> "error", value |-> lookahead]
    /\ UNCHANGED << tokens, pos, statestack, symstack, ast, output, pc >>
    /\ UNCHANGED symvars

\* t is None on the error symbol (no rule of the grammar takes it): pop a state.
ErrorPop ==
    /\ pc = "parse"
    /\ lookahead # None
    /\ Len(statestack) > 1
    /\ lookahead.type = "error"
    /\ Action.kind = "none"
    /\ SyntaxError
    /\ symstack' = SubSeq(symstack, 1, Len(symstack) - 1)
    /\ statestack' = SubSeq(statestack, 1, Len(statestack) - 1)
    /\ UNCHANGED << tokens, pos, lookahead, lookaheadstack, ast, output, pc >>
    /\ UNCHANGED symvars

(***************************************************************************)
(* main(): after the parse.                                                *)
(***************************************************************************)
\* if not ast: print "[Parser] No se pudo construir el AST"; sys.exit(1)
NoAst ==
    /\ pc = "returned"
    /\ ast = None
    /\ output' = [raised |-> "no_ast", name |-> ""]
    /\ pc' = "exit"
    /\ UNCHANGED << tokens, pos, lookahead, lookaheadstack, statestack, symstack,
                    errorcount, diagnostics, ast >>
    /\ UNCHANGED symvars

\* try: check_semantics(ast); print "[OK] ..." except Exception as e: print(e)
Validate ==
    /\ pc = "returned"
    /\ ast # None
    /\ output' = check_semantics(ast)
    /\ pc' = "done"
    /\ UNCHANGED << tokens, pos, lookahead, lookaheadstack, statestack, symstack,
                    errorcount, diagnostics, ast >>
    /\ UNCHANGED symvars

(***************************************************************************)
(* The inputs of the runs.                                                 *)
(***************************************************************************)
MaxOps == 2

MaxArgs == 2

MaxList == 3

SeqsUpTo(n, S) == UNION {[1..k -> S] : k \in 0..n}

RECURSIVE Flatten(_)
Flatten(ss) == IF ss = << >> THEN << >> ELSE ss[1] \o Flatten(Tail(ss))

RECURSIVE JoinComma(_)
JoinComma(items) ==
    IF Len(items) = 0 THEN << >>
    ELSE IF Len(items) = 1 THEN items[1]
    ELSE items[1] \o << Punct("COMMA") >> \o JoinComma(Tail(items))

\* SUBROUTINE VOID main ( params ) DO body END
SubTokens(params, body) ==
    << t_ID("SUBROUTINE"), t_ID("VOID"), t_ID("main"), Punct("LPAREN") >> \o params
    \o << Punct("RPAREN"), t_ID("DO") >> \o body \o << t_ID("END") >>

Wrap(body) == SubTokens(<< >>, body)

\* The place of the first token of main's body in Wrap(body).
BodyStart == Len(Wrap(<< >>))

ArithOps == {"PLUS", "MINUS", "TIMES", "DIVIDE"}

UndeclaredOps == {"EQ", "NEQ", "GT", "LT", "AND", "OR"}

BinOps == ArithOps \cup UndeclaredOps

OpTok(t) == IF t \in reserved THEN t_ID(t) ELSE Punct(t)

OperandNames == << "a", "b", "c", "d", "e", "g" >>

\* [NOT] a op1 b op2 c ...
ExprTokens(ops, neg) ==
    (IF neg THEN << t_ID("NOT") >> ELSE << >>) \o << t_ID(OperandNames[1]) >>
    \o Flatten([i \in 1..Len(ops) |-> << OpTok(ops[i]), t_ID(OperandNames[i + 1]) >>])

\* main's body is RETURN <expression> ;
ExprInputs ==
    {Wrap(<< t_ID("RETURN") >> \o ExprTokens(ops, neg) \o << Punct("SEMICOLON") >>) :
       ops \in UNION {[1..n -> BinOps] : n \in 1..MaxOps}, neg \in BOOLEAN}

CallTokens(name, items) ==
    << t_ID(name), Punct("LPAREN") >> \o JoinComma(items) \o << Punct("RPAREN") >>

Atoms == {<< t_INT_LITERAL("1") >>, << t_INT_LITERAL("2") >>}

InnerCalls == {CallTokens("g", items) : items \in SeqsUpTo(1, Atoms)}

\* f(...) with literals and calls of g as arguments
CallShapes == {CallTokens("f", items) : items \in SeqsUpTo(MaxArgs, Atoms \cup InnerCalls)}

\* main's body is C ; RETURN C ; for a call C
CallInputs ==
    {Wrap(c \o << Punct("SEMICOLON"), t_ID("RETURN") >> \o c \o << Punct("SEMICOLON") >>) :
       c \in CallShapes}

\* main's body is f ( s ) ; with s any sequence of 1's and commas
ArgListInputs ==
    {Wrap(<< t_ID("f"), Punct("LPAREN") >> \o s \o << Punct("RPAREN"), Punct("SEMICOLON") >>) :
       s \in SeqsUpTo(MaxList, {t_INT_LITERAL("1"), Punct("COMMA")})}

\* main's parameter list is any sequence of INT x's and commas
ParamListInputs ==
    {SubTokens(Flatten(s), << >>) :
       s \in SeqsUpTo(MaxList, {<< t_ID("INT"), t_ID("x") >>, << Punct("COMMA") >>})}

\* Every prefix of SUBROUTINE VOID main ( ) DO END
PrefixInputs == {SubSeq(Wrap(<< >>), 1, n) : n \in 0..Len(Wrap(<< >>))}

\* A stray token before SUBROUTINE VOID main ( ) DO END
JunkInputs ==
    {<< j >> \o Wrap(<< >>) : j \in {Punct("RPAREN"), Punct("SEMICOLON"), t_ID("END")}}

Inputs ==
    ExprInputs \cup CallInputs \cup ArgListInputs \cup ParamListInputs \cup PrefixInputs
    \cup JunkInputs

DeclNames == {"main", "x", "y"}

ConstDecls == {ConstDeclNode("INT", n, IntLiteralNode("1")) : n \in DeclNames}

VarDecls == {VarDeclNode("INT", n, None) : n \in DeclNames}

SubDecls == {SubroutineNode(t, n, << >>, << >>) : t \in {"VOID", "INT"}, n \in DeclNames}

\* The Program ASTs check_semantics is run on: at most MaxDecls declarations.
ProgramASTs(a) ==
    \E c \in SeqsUpTo(MaxDecls, ConstDecls) :
      \E v \in SeqsUpTo(MaxDecls - Len(c), VarDecls) :
        \E s \in SeqsUpTo(MaxDecls - Len(c) - Len(v), SubDecls) :
          a = ProgramNode(c, v, s)

SymNames == {"x", "y"}

SymInfos == {[type |-> "INT", isConst |-> TRUE], [type |-> "BOOL", isConst |-> FALSE]}

(***************************************************************************)
(* The SymbolTable's operations, called in any order.                      *)
(***************************************************************************)
NoCall == [op |-> "init", name |-> "", info |-> None, before |-> << >>, result |-> None]

PushScope ==
    /\ pc = "symtab"
    /\ Len(scopes) < MaxScopes
    /\ scopes' = push_scope(scopes)
    /\ st_call' = [op |-> "push_scope", name |-> "", info |-> None, before |-> scopes,
                   result |-> None]
    /\ UNCHANGED parsevars

PopScope ==
    /\ pc = "symtab"
    /\ LET r == pop_scope(scopes)
       IN /\ scopes' = r.scopes
          /\ st_call' = [op |-> "pop_scope", name |-> "", info |-> None, before |-> scopes,
                         result |-> [raised |-> r.raised]]
    /\ UNCHANGED parsevars

Declare ==
    /\ pc = "symtab"
    /\ \E name \in SymNames, info \in SymInfos :
         LET r == declare(scopes, name, info)
         IN /\ scopes' = r.scopes
            /\ st_call' = [op |-> "declare", name |-> name, info |-> info,
                           before |-> scopes, result |-> [raised |-> r.raised]]
    /\ UNCHANGED parsevars

Get ==
    /\ pc = "symtab"
    /\ \E name \in SymNames :
         st_call' = [op |-> "get", name |-> name, info |-> None, before |-> scopes,
                     result |-> get(scopes, name)]
    /\ UNCHANGED scopes
    /\ UNCHANGED parsevars

(***************************************************************************)
(* Specifications.                                                         *)
(***************************************************************************)
ParserIdle ==
    /\ tokens = << >>
    /\ pos = 0
    /\ lookahead = None
    /\ lookaheadstack = << >>
    /\ statestack = << StartState >>
    /\ symstack = << EndSym >>
    /\ errorcount = 0
    /\ diagnostics = << >>
    /\ ast = None
    /\ output = [raised |-> "", name |-> ""]

\* A SymbolTable, fresh from its constructor, used through its methods.
SymInit ==
    /\ scopes = SymbolTable
    /\ st_call = NoCall
    /\ ParserIdle
    /\ pc = "symtab"

SymNext == PushScope \/ PopScope \/ Declare \/ Get

SymSpec == SymInit /\ [][SymNext]_vars

\* check_semantics on a Program AST.
SemInit ==
    /\ scopes = SymbolTable
    /\ st_call = NoCall
    /\ tokens = << >>
    /\ pos = 0
    /\ lookahead = None
    /\ lookaheadstack = << >>
    /\ statestack = << StartState >>
    /\ symstack = << EndSym >>
    /\ errorcount = 0
    /\ diagnostics = << >>
    /\ ProgramASTs(ast)
    /\ output = [raised |-> "", name |-> ""]
    /\ pc = "returned"

SemNext == Validate

SemSpec == SemInit /\ [][SemNext]_vars

\* main() on a token sequence: the parse, then the validation of what it returned.
Init ==
    /\ scopes = SymbolTable
    /\ st_call = NoCall
    /\ tokens \in Inputs
    /\ pos = 0
    /\ lookahead = None
    /\ lookaheadstack = << >>
    /\ statestack = << StartState >>
    /\ symstack = << EndSym >>
    /\ errorcount = 0
    /\ diagnostics = << >>
    /\ ast = None
    /\ output = [raised |-> "", name |-> ""]
    /\ pc = "parse"

Next ==
    \/ GetToken
    \/ Shift
    \/ Reduce
    \/ Accept
    \/ ErrorDiscard
    \/ ErrorBail
    \/ ErrorToken
    \/ ErrorPop
    \/ NoAst
    \/ Validate

Spec == Init /\ [][Next]_vars

(***************************************************************************)
(* Properties.                                                             *)
(***************************************************************************)
Max(S) == CHOOSE x \in S : \A y \in S : y <= x

Min(S) == CHOOSE x \in S : \A y \in S : x <= y

\* The names of the top-level declarations in source order.
TopLevelNames(a) ==
    [i \in 1..Len(a.consts) |-> a.consts[i].name]
    \o [i \in 1..Len(a.vars_) |-> a.vars_[i].name]
    \o [i \in 1..Len(a.subs) |-> a.subs[i].name]

\* The places of the declarations whose name an earlier declaration has.
Collisions(names) == {j \in 1..Len(names) : \E i \in 1..(j - 1) : names[i] = names[j]}

MainsOf(a) == {i \in 1..Len(a.subs) : a.subs[i].name = "main"}

\* C1: on a Program whose top-level names are pairwise distinct, check_semantics
\* raises "missing entry point" when no subroutine is named main, "entry point
\* must be VOID" when the subroutine main has another return type, and nothing
\* when main is VOID.
C1_EntryPoint ==
    (pc = "done" /\ Collisions(TopLevelNames(ast)) = {})
    => /\ MainsOf(ast) = {} => output = [raised |-> "no_main", name |-> ""]
       /\ \A i \in MainsOf(ast) :
            /\ ast.subs[i].rtype # "VOID" => output = [raised |-> "main_not_void", name |-> ""]
            /\ ast.subs[i].rtype = "VOID" => output = [raised |-> "none", name |-> ""]

\* A validated program with a constant, a variable, another subroutine and a VOID main.
C1_Witness ==
    /\ pc = "done"
    /\ Collisions(TopLevelNames(ast)) = {}
    /\ Len(ast.consts) + Len(ast.vars_) > 0
    /\ Len(ast.subs) > 1
    /\ \E i \in MainsOf(ast) : ast.subs[i].rtype = "VOID"
    /\ output.raised = "none"

\* C2: on a Program in which two top-level declarations share a name,
\* check_semantics raises the duplicate-identifier condition for the first
\* colliding declaration in source order (constants, variables, subroutines),
\* whatever collisions follow and whatever main is.
C2_FirstDuplicate ==
    (pc = "done" /\ Collisions(TopLevelNames(ast)) # {})
    => output = [raised |-> "duplicate",
                 name |-> TopLevelNames(ast)[Min(Collisions(TopLevelNames(ast)))]]

\* Two collisions on different names, the first one reported, and no main.
C2_Witness ==
    /\ pc = "done"
    /\ \E j, l \in Collisions(TopLevelNames(ast)) :
         /\ j < l
         /\ TopLevelNames(ast)[j] # TopLevelNames(ast)[l]
         /\ output = [raised |-> "duplicate", name |-> TopLevelNames(ast)[j]]
    /\ \E i \in 1..Len(ast.subs) : ast.subs[i].name = "main" /\ ast.subs[i].rtype # "VOID"

\* C6: the scope stack always holds at least one scope.
C6_GlobalScopeKept == Len(scopes) >= 1

\* The scopes that bind name, innermost last.
Binders(s, name) == {i \in 1..Len(s) : name \in DOMAIN s[i]}

\* C7: declare raises the duplicate-declaration condition exactly when the name
\* is bound in the innermost scope (a binding in an outer scope does not count);
\* when it succeeds the innermost scope gains that one binding and the outer
\* scopes are unchanged; when it fails no scope changes.
C7_Declare ==
    st_call.op = "declare"
    => LET b == st_call.before
           n == Len(b)
       IN /\ st_call.result.raised = "duplicate" <=> (n > 0 /\ n \in Binders(b, st_call.name))
          /\ st_call.result.raised = "none"
             => /\ Len(scopes) = n
                /\ \A i \in 1..(n - 1) : scopes[i] = b[i]
                /\ DOMAIN scopes[n] = DOMAIN b[n] \cup {st_call.name}
                /\ scopes[n][st_call.name] = st_call.info
                /\ \A m \in DOMAIN b[n] : scopes[n][m] = b[n][m]
          /\ st_call.result.raised # "none" => scopes = b

\* A declare that succeeds although an outer scope binds the name.
C7_Witness ==
    /\ st_call.op = "declare"
    /\ st_call.result.raised = "none"
    /\ \E i \in 1..(Len(st_call.before) - 1) : st_call.name \in DOMAIN st_call.before[i]

\* C8: lookup returns the info of the innermost scope that binds the name, None
\* when no scope binds it, and changes no scope.
C8_Lookup ==
    st_call.op = "get"
    => LET b == st_call.before
           bs == Binders(b, st_call.name)
       IN /\ scopes = b
          /\ bs = {} => st_call.result = None
          /\ bs # {} => st_call.result = b[Max(bs)][st_call.name]

\* A lookup of a name two scopes bind to different infos.
C8_Witness ==
    /\ st_call.op = "get"
    /\ \E i, j \in Binders(st_call.before, st_call.name) :
         /\ i < j
         /\ st_call.before[i][st_call.name] # st_call.before[j][st_call.name]
         /\ st_call.result = st_call.before[j][st_call.name]

\* The Program of SUBROUTINE VOID main ( ) DO body END.
MainProgram(body) ==
    ProgramNode(<< >>, << >>, << SubroutineNode("VOID", "main", << >>, body) >>)

\* main's body is RETURN <expression> ;
IsExprInput == Len(tokens) > BodyStart /\ tokens[BodyStart].type = "RETURN"

\* The tokens of that expression.
ExprOfInput == SubSeq(tokens, BodyStart + 1, Len(tokens) - 2)

Finished == pc \in {"returned", "exit", "done"}

\* The tree of operand (op operand)* over + - * /: split at the last + or -,
\* or without any at the last * or /.
RECURSIVE ArithTree(_)
ArithTree(e) ==
    IF Len(e) = 1 THEN VarRefNode(e[1].value)
    ELSE LET adds == {i \in 1..Len(e) : e[i].type \in {"PLUS", "MINUS"}}
             muls == {i \in 1..Len(e) : e[i].type \in {"TIMES", "DIVIDE"}}
             i == IF adds # {} THEN Max(adds) ELSE Max(muls)
         IN BinOpNode(e[i].value, ArithTree(SubSeq(e, 1, i - 1)),
                      ArithTree(SubSeq(e, i + 1, Len(e))))

ReturnInput(e) == Wrap(<< t_ID("RETURN") >> \o e \o << Punct("SEMICOLON") >>)

Var(n) == VarRefNode(n)

\* C4: an expression of operands and + - * / without parentheses parses to the
\* tree in which * and / bind tighter than + and - and equal levels group to the
\* left; a + b * c gives +(a, *(b, c)) and a - b - c gives -(-(a, b), c).
C4_ArithPrecedence ==
    (Finished /\ IsExprInput /\ \A i \in 1..Len(ExprOfInput) :
                                  ExprOfInput[i].type \in ArithOps \cup {"ID"})
    => /\ diagnostics = << >>
       /\ ast = MainProgram(<< ReturnNode(ArithTree(ExprOfInput)) >>)
       /\ tokens = ReturnInput(ExprTokens(<< "PLUS", "TIMES" >>, FALSE))
          => ast = MainProgram(<< ReturnNode(
                     BinOpNode("+", Var("a"), BinOpNode("*", Var("b"), Var("c")))) >>)
       /\ tokens = ReturnInput(ExprTokens(<< "MINUS", "MINUS" >>, FALSE))
          => ast = MainProgram(<< ReturnNode(
                     BinOpNode("-", BinOpNode("-", Var("a"), Var("b")), Var("c"))) >>)

\* a + b * c has been parsed.
C4_Witness ==
    /\ pc = "done"
    /\ tokens = ReturnInput(ExprTokens(<< "PLUS", "TIMES" >>, FALSE))
    /\ ast = MainProgram(<< ReturnNode(
               BinOpNode("+", Var("a"), BinOpNode("*", Var("b"), Var("c")))) >>)

\* The level of a binary operator: * / above + - above the six others.
OpLevel(t) == IF t \in {"TIMES", "DIVIDE"} THEN 2 ELSE IF t \in {"PLUS", "MINUS"} THEN 1 ELSE 0

\* The tree of [NOT] operand (op operand)*: split at an operator of the lowest
\* level, the first one on the lowest level of all (which groups to the right),
\* the last one on the arithmetic levels; NOT binds tightest.
RECURSIVE RefTree(_)
RefTree(e) ==
    LET ops == {i \in 1..Len(e) : e[i].type \in BinOps}
    IN IF ops = {}
       THEN (IF e[1].type = "NOT" THEN UnOpNode("NOT", RefTree(Tail(e)))
             ELSE VarRefNode(e[1].value))
       ELSE LET low == Min({OpLevel(e[i].type) : i \in ops})
                cands == {i \in ops : OpLevel(e[i].type) = low}
                i == IF low = 0 THEN Min(cands) ELSE Max(cands)
            IN BinOpNode(e[i].value, RefTree(SubSeq(e, 1, i - 1)),
                         RefTree(SubSeq(e, i + 1, Len(e))))

\* C10: == != > < AND OR form one level that binds looser than + - * / and NOT
\* and groups to the right: a == b AND c gives ==(a, AND(b, c)), a + b == c gives
\* ==(+(a, b), c), a == b + c gives ==(a, +(b, c)), NOT a == b gives ==(NOT a, b).
C10_UndeclaredOperators ==
    (Finished /\ IsExprInput /\ \E i \in 1..Len(ExprOfInput) :
                                  ExprOfInput[i].type \in UndeclaredOps)
    => /\ diagnostics = << >>
       /\ ast = MainProgram(<< ReturnNode(RefTree(ExprOfInput)) >>)
       /\ tokens = ReturnInput(ExprTokens(<< "EQ", "AND" >>, FALSE))
          => ast = MainProgram(<< ReturnNode(
                     BinOpNode("==", Var("a"), BinOpNode("AND", Var("b"), Var("c")))) >>)
       /\ tokens = ReturnInput(ExprTokens(<< "PLUS", "EQ" >>, FALSE))
          => ast = MainProgram(<< ReturnNode(
                     BinOpNode("==", BinOpNode("+", Var("a"), Var("b")), Var("c"))) >>)
       /\ tokens = ReturnInput(ExprTokens(<< "EQ", "PLUS" >>, FALSE))
          => ast = MainProgram(<< ReturnNode(
                     BinOpNode("==", Var("a"), BinOpNode("+", Var("b"), Var("c")))) >>)
       /\ tokens = ReturnInput(ExprTokens(<< "EQ" >>, TRUE))
          => ast = MainProgram(<< ReturnNode(
                     BinOpNode("==", UnOpNode("NOT", Var("a")), Var("b"))) >>)

\* a == b AND c has been parsed.
C10_Witness ==
    /\ pc = "done"
    /\ tokens = ReturnInput(ExprTokens(<< "EQ", "AND" >>, FALSE))
    /\ ast = MainProgram(<< ReturnNode(
               BinOpNode("==", Var("a"), BinOpNode("AND", Var("b"), Var("c")))) >>)

\* f ( 1 , g ( 2 ) )
NestedCall ==
    CallTokens("f", << << t_INT_LITERAL("1") >>, CallTokens("g", << << t_INT_LITERAL("2") >> >>) >>)

NestedCallNode ==
    CallNode("f", << IntLiteralNode("1"), CallNode("g", << IntLiteralNode("2") >>) >>)

CallInput(c) ==
    Wrap(c \o << Punct("SEMICOLON"), t_ID("RETURN") >> \o c \o << Punct("SEMICOLON") >>)

\* C5: the Call node of identifier ( argument-list ) as a statement is the very
\* node the same tokens give as an expression: in main's body C ; RETURN C ; the
\* first statement is a Call node and the second is the Return of an equal node;
\* for f(1, g(2)) both are Call{f, [1, Call{g, [2]}]}.
C5_CallDuality ==
    (Finished /\ tokens \in CallInputs)
    => /\ diagnostics = << >>
       /\ ast # None
       /\ Len(ast.subs) = 1
       /\ Len(ast.subs[1].body) = 2
       /\ ast.subs[1].body[1].node = "Call"
       /\ ast.subs[1].body[2] = ReturnNode(ast.subs[1].body[1])
       /\ tokens = CallInput(NestedCall)
          => ast = MainProgram(<< NestedCallNode, ReturnNode(NestedCallNode) >>)

\* f(1, g(2)); RETURN f(1, g(2)); has been parsed.
C5_Witness ==
    /\ pc = "done"
    /\ tokens = CallInput(NestedCall)
    /\ ast = MainProgram(<< NestedCallNode, ReturnNode(NestedCallNode) >>)

\* An argument list in which every comma stands between two items.
WellFormedArgs(s) ==
    \/ s = << >>
    \/ /\ Len(s) % 2 = 1
       /\ \A i \in 1..Len(s) : (s[i].type = "COMMA") <=> (i % 2 = 0)

\* A parameter list in which every comma stands between two type-name pairs.
WellFormedParams(s) ==
    \/ s = << >>
    \/ /\ Len(s) % 3 = 2
       /\ \A i \in 1..Len(s) : /\ (s[i].type = "COMMA") <=> (i % 3 = 0)
                               /\ (s[i].type = "INT") <=> (i % 3 = 1)

Commas(s) == Cardinality({i \in 1..Len(s) : s[i].type = "COMMA"})

\* The tokens between the parentheses of f ( ... ) ; in main's body.
ArgsOfInput == SubSeq(tokens, BodyStart + 2, Len(tokens) - 3)

\* The tokens between the parentheses of main ( ... ).
ParamsOfInput == SubSeq(tokens, 5, Len(tokens) - 3)

\* C9: a parameter or argument list is accepted only when it is empty or every
\* comma stands between two items (f(1,), f(,1) and f(,) are syntax errors), and
\* an accepted non-empty list has as many items as commas plus one.
C9_CommasBetweenItems ==
    /\ (Finished /\ tokens \in ArgListInputs)
       => /\ diagnostics = << >> <=> WellFormedArgs(ArgsOfInput)
          /\ (diagnostics = << >> /\ ArgsOfInput # << >>)
             => Len(ast.subs[1].body[1].args) = Commas(ArgsOfInput) + 1
    /\ (Finished /\ tokens \in ParamListInputs)
       => /\ diagnostics = << >> <=> WellFormedParams(ParamsOfInput)
          /\ (diagnostics = << >> /\ ParamsOfInput # << >>)
             => Len(ast.subs[1].params) = Commas(ParamsOfInput) + 1

\* C3: on a token sequence with a syntax error the parse stops at the first
\* offending token: one diagnostic, nothing pulled after that token, no AST, and
\* main() never reaches the validation.
C3_StopsAtFirstError ==
    (pc \in {"exit", "done"} /\ diagnostics # << >>)
    => /\ Len(diagnostics) = 1
       /\ pos = diagnostics[1].at
       /\ ast = None
       /\ pc = "exit"

=============================================================================
